---- MODULE Spec2Model ----
(***************************************************************************)
(* Model of foressment_ai/forecasting/forecaster_ai/forecaster.py:         *)
(*   TSGenerator      - sliding input/target windows over a sequence       *)
(*   NaiveForecaster  - persistence forecast and the multi-step driver     *)
(*                                                                         *)
(* A row of an array (one timestep, all F features) is one value of Vals:  *)
(* every operation modelled here copies rows whole and never looks inside  *)
(* them.  A 2D array is a sequence of rows, a 3D array a sequence of       *)
(* windows, a window a sequence of rows.  Python indices are 0-based, the  *)
(* sequences here 1-based; each operator says which it takes.              *)
(* An optional argument is <<>> for None and <<v>> for the value v.        *)
(***************************************************************************)
EXTENDS Integers, Sequences, FiniteSets, TLC

\* Longest sequence handed to the generator.
MaxT == 4

\* The rows a sequence can hold.
Vals == {0, 1}

None == <<>>
Some(v) == <<v>>
IsNone(o) == o = <<>>
Val(o) == o[1]

Min(a, b) == IF a < b THEN a ELSE b
Max(a, b) == IF a > b THEN a ELSE b

\* Python's `v in range(lo, hi)` for an integer v.
InRange(v, lo, hi) == lo <= v /\ v < hi

\* s[a:b] of Python for a sequence s and integers a, b.
SliceIdx(i, n) == IF i < 0 THEN Max(n + i, 0) ELSE Min(i, n)
Slice(s, a, b) == SubSeq(s, SliceIdx(a, Len(s)) + 1, SliceIdx(b, Len(s)))

Seqs(n) == UNION {[1..k -> Vals] : k \in 0..n}

VARIABLES
    gen,               \* "none", then "ready" or, if __init__ raised, "failed"
    look_back_length,  \* self.look_back_length
    horizon,           \* self.horizon
    seq,               \* the array self.data and self.targets are views of
    data,              \* self.data
    targets,           \* self.targets
    last,              \* the last call: operation, arguments, outcome
    ret,               \* what the last call returned
    model_params,      \* NaiveForecaster.model_params
    fc_pc,             \* "none", "idle" (forecaster built), "loop", "done"
    fc_input,          \* forecasting: data as the caller passed it
    fc_data,           \* forecasting: data, once reshaped to 3D
    forecasting_data_length,
    predictions,       \* forecasting: predictions
    batch,             \* forecasting: batch
    fc_calls,          \* the calls of _predict so far: argument and outcome
    fc_ret,            \* what forecasting returned or raised
    fp_state,          \* a ForecasterParameters: "none", "live" or "failed"
    fp,                \* its __dict__
    fp_last,           \* the last call on it
    es_state,          \* a ForecastEstimator: "none" or "live"
    features_names,    \* its features_names
    true,              \* its true values
    pred,              \* its dict of predictions
    quality,           \* its DataFrame of metrics
    es_last            \* the last call on it

tsVars == <<gen, look_back_length, horizon, seq, data, targets, last, ret>>

fcVars == <<model_params, fc_pc, fc_input, fc_data, forecasting_data_length,
            predictions, batch, fc_calls, fc_ret>>

fpVars == <<fp_state, fp, fp_last>>

esVars == <<es_state, features_names, true, pred, quality, es_last>>

vars == <<tsVars, fcVars, fpVars, esVars>>

genVars == <<gen, look_back_length, horizon, seq, data, targets>>

(***************************************************************************)
(* TSGenerator._temporality                                                *)
(***************************************************************************)

\* As TemporalityOk, with the horizon's upper bound one too low.
TemporalityOk_short(x, L, H) ==
    /\ InRange(L, 0, Len(x))
    /\ InRange(H, 0, Len(x) - L)

\* The two assertions on look_back_length and horizon.
TemporalityOk(x, L, H) ==
    /\ InRange(L, 0, Len(x))
    /\ InRange(H, 0, Len(x) - L + 1)

\* As data_length, without the + 1.
data_length_less(x, L, H) == Len(x) - L - H

data_length(x, L, H) == Len(x) - L - H + 1

\* as_strided(x[off:], shape=(n, w, q), strides=(m, m, n)): window i, step j
\* (0-based) is row off + i + j of x.
Strided(x, off, n, w) ==
    [i \in 1..n |-> [j \in 1..w |-> x[off + (i - 1) + (j - 1) + 1]]]

TemporalityData(x, L, H) == Strided(x, 0, data_length(x, L, H), L)

\* As TemporalityTargets, on x[look_back_length - 1:]: targets overlap inputs.
TemporalityTargets_overlap(x, L, H) ==
    Strided(x, Max(L - 1, 0), data_length(x, L, H), H)

TemporalityTargets(x, L, H) == Strided(x, L, data_length(x, L, H), H)

(***************************************************************************)
(* TSGenerator._flatten                                                    *)
(*   x    the windows, w their length (x.shape[1])                         *)
(*   buf  what np.empty handed out in the rows the two loops never write   *)
(***************************************************************************)

\* The rows (1-based) of the result that neither loop assigns.
Unwritten(x, w) ==
    {k \in 1..(Len(x) + w - 1) : k - 1 >= Len(x) - 1 /\ k - 1 >= w}

FlattenError(x, w) ==
    IF Len(x) + w - 1 < 0 THEN "ValueError"          \* np.empty, negative size
    ELSE IF Len(x) >= 2 /\ w = 0 THEN "IndexError"   \* x[i, 0, :]
    ELSE IF Len(x) = 0 THEN "IndexError"             \* x[last_id], last_id = -1
    ELSE "ok"

Flatten(x, w, buf) ==
    LET last_id == Len(x) - 1
    IN  [k \in 1..(Len(x) + w - 1) |->
            IF k - 1 < last_id THEN x[k][1]
            ELSE IF InRange(k - 1, last_id, w) THEN x[last_id + 1][k]
            ELSE buf[k]]

(***************************************************************************)
(* TSGenerator._get_x                                                      *)
(***************************************************************************)

Okay(kind, val) == [kind |-> kind, val |-> val, err |-> "ok"]
Fail(err) == [kind |-> "error", val |-> <<>>, err |-> err]

\* `if sample[0]:` / `if sample[1]:` - None and 0 are both false.
Truthy(o) == ~IsNone(o) /\ Val(o) # 0

WindowIdOk(x, window_id) == InRange(window_id, -1 * (Len(x) - 1), Len(x) - 1)

\* x[window_id] for an index inside the array.
PyIndex(x, i) == IF i < 0 THEN x[Len(x) + i + 1] ELSE x[i + 1]

\* x_to_get before flattening: <<>> stands for None.
Selected(x, window_id, sample) ==
    IF ~IsNone(window_id) THEN Some(<<PyIndex(x, Val(window_id))>>)
    ELSE IF ~IsNone(sample) THEN
        LET sample_min == IF Truthy(sample[1]) THEN Val(sample[1]) ELSE 0
            sample_max == IF Truthy(sample[2]) THEN Val(sample[2]) ELSE Len(x)
        IN  Some(Slice(x, sample_min, sample_max))
    ELSE None

GetX(x, w, flatten, window_id, sample, buf) ==
    IF ~IsNone(window_id) /\ ~WindowIdOk(x, Val(window_id))
    THEN Fail("AssertionError")
    ELSE LET x_to_get == Selected(x, window_id, sample)
             arr == IF IsNone(x_to_get) THEN x ELSE Val(x_to_get)
         IN  IF flatten
             THEN IF FlattenError(arr, w) # "ok"
                  THEN Fail(FlattenError(arr, w))
                  ELSE Okay("flat", Flatten(arr, w, buf))
             ELSE Okay("windows", arr)

\* The contents np.empty can hand out to the _flatten of this call.
Buffers(x, w, flatten, window_id, sample) ==
    IF ~flatten \/ (~IsNone(window_id) /\ ~WindowIdOk(x, Val(window_id)))
    THEN {<<>>}
    ELSE LET x_to_get == Selected(x, window_id, sample)
             arr == IF IsNone(x_to_get) THEN x ELSE Val(x_to_get)
         IN  IF FlattenError(arr, w) # "ok" THEN {<<>>}
             ELSE [Unwritten(arr, w) -> Vals]

\* x.shape[1] of a window array with at least one window.
Shape1(x) == Len(x[1])

(***************************************************************************)
(* The record of a call                                                    *)
(***************************************************************************)

NoCall == [op |-> "none", status |-> "ok", x |-> <<>>, L |-> 0, H |-> 0,
           flatten |-> FALSE, window_id |-> None, sample |-> None]

InitTS ==
    /\ gen = "none"
    /\ look_back_length = 0
    /\ horizon = 0
    /\ seq = <<>>
    /\ data = <<>>
    /\ targets = <<>>
    /\ last = NoCall
    /\ ret = Okay("none", <<>>)

(***************************************************************************)
(* TSGenerator.__init__ (a 1D array is a sequence of rows already)         *)
(***************************************************************************)

ConstructOk(x, L, H) ==
    /\ gen = "none"
    /\ TemporalityOk(x, L, H)
    /\ gen' = "ready"
    /\ look_back_length' = L
    /\ horizon' = H
    /\ seq' = x
    /\ data' = TemporalityData(x, L, H)
    /\ targets' = TemporalityTargets(x, L, H)
    /\ last' = [NoCall EXCEPT !.op = "construct", !.x = x, !.L = L, !.H = H]
    /\ ret' = Okay("none", <<>>)
    /\ UNCHANGED <<fcVars, fpVars, esVars>>

ConstructFail(x, L, H) ==
    /\ gen = "none"
    /\ ~TemporalityOk(x, L, H)
    /\ last' = [NoCall EXCEPT !.op = "construct", !.status = "AssertionError",
                              !.x = x, !.L = L, !.H = H]
    /\ ret' = Okay("none", <<>>)
    /\ gen' = "failed"
    /\ UNCHANGED <<look_back_length, horizon, seq, data, targets>>
    /\ UNCHANGED <<fcVars, fpVars, esVars>>

Construct ==
    \E x \in Seqs(MaxT), L \in -1..MaxT + 1, H \in -1..MaxT + 1 :
        ConstructOk(x, L, H) \/ ConstructFail(x, L, H)

(***************************************************************************)
(* TSGenerator.get_data / get_targets                                      *)
(***************************************************************************)

Opts(S) == {None} \cup {Some(v) : v \in S}

Get(op, x, flatten, window_id, sample) ==
    /\ gen = "ready"
    /\ \E buf \in Buffers(x, Shape1(x), flatten, window_id, sample) :
           ret' = GetX(x, Shape1(x), flatten, window_id, sample, buf)
    /\ last' = [NoCall EXCEPT !.op = op, !.status = ret'.err,
                              !.flatten = flatten, !.window_id = window_id,
                              !.sample = sample]
    /\ UNCHANGED genVars
    /\ UNCHANGED <<fcVars, fpVars, esVars>>

GetArgs ==
    [flatten : BOOLEAN,
     window_id : Opts(-(MaxT + 2)..(MaxT + 1)),
     sample : {None}]

get_data == \E a \in GetArgs : Get("get_data", data, a.flatten, a.window_id, a.sample)

get_targets == \E a \in GetArgs : Get("get_targets", targets, a.flatten, a.window_id, a.sample)

\* Largest endpoint of a sample=(start, end) argument explored.
MaxSample == 3

\* The calls with a sample, no window_id and no flattening.
SampleArgs ==
    [flatten : {FALSE},
     sample : Opts(0..MaxSample) \X Opts(0..MaxSample)]

get_data_sample ==
    \E a \in SampleArgs : Get("get_data", data, a.flatten, None, a.sample)

get_targets_sample ==
    \E a \in SampleArgs : Get("get_targets", targets, a.flatten, None, a.sample)

(***************************************************************************)
(* TSGenerator.change_horizon                                              *)
(***************************************************************************)

\* As ChangeHorizonRun, without appending the last target window.
ChangeHorizonRun_data(h, buf1, buf2) ==
    LET d == GetX(data, Shape1(data), TRUE, None, None, buf1)
        x == d.val
    IN  IF d.err # "ok" THEN [status |-> d.err, x |-> <<>>]
        ELSE IF ~TemporalityOk(x, look_back_length, h)
             THEN [status |-> "AssertionError", x |-> x]
        ELSE [status |-> "ok", x |-> x]

\* The outcome of the body after `self.horizon = horizon`.
ChangeHorizonRun(h, buf1, buf2) ==
    LET d == GetX(data, Shape1(data), TRUE, None, None, buf1)
        t == GetX(targets, Shape1(targets), TRUE, Some(-1), None, buf2)
        x == d.val \o t.val
    IN  IF d.err # "ok" THEN [status |-> d.err, x |-> <<>>]
        ELSE IF t.err # "ok" THEN [status |-> t.err, x |-> <<>>]
        ELSE IF ~TemporalityOk(x, look_back_length, h)
             THEN [status |-> "AssertionError", x |-> x]
        ELSE [status |-> "ok", x |-> x]

change_horizon(h) ==
    /\ gen = "ready"
    /\ horizon' = h
    /\ \E buf1 \in Buffers(data, Shape1(data), TRUE, None, None),
          buf2 \in Buffers(targets, Shape1(targets), TRUE, Some(-1), None) :
        LET r == ChangeHorizonRun(h, buf1, buf2)
        IN  /\ last' = [NoCall EXCEPT !.op = "change_horizon", !.status = r.status,
                                      !.x = r.x, !.H = h]
            /\ IF r.status = "ok"
               THEN /\ seq' = r.x
                    /\ data' = TemporalityData(r.x, look_back_length, h)
                    /\ targets' = TemporalityTargets(r.x, look_back_length, h)
               ELSE UNCHANGED <<seq, data, targets>>
    /\ ret' = Okay("none", <<>>)
    /\ UNCHANGED <<gen, look_back_length>>
    /\ UNCHANGED <<fcVars, fpVars, esVars>>

ChangeHorizon == \E h \in -1..MaxT + 1 : change_horizon(h)

(***************************************************************************)
(* NaiveForecaster                                                         *)
(* A 3D array is [steps, feat, wins]: shape[1], shape[2] and the windows;  *)
(* shape[0] is Len(wins).  The shape is kept apart from the windows        *)
(* because an array of no windows still has one.                           *)
(***************************************************************************)

\* Bounds of the forecasting calls explored.
MaxB == 2
MaxL == 2
MaxH == 2
MaxF == 2
MaxLen == 4

Arr(steps, feat, wins) == [steps |-> steps, feat |-> feat, wins |-> wins]
NoArr == Arr(0, 0, <<>>)

Res(arr) == [err |-> "ok", arr |-> arr]
Raise(err) == [err |-> err, arr |-> NoArr]

\* As _predict, repeating the first row of each window instead of the last.
_predict_first(d, params) ==
    IF params.horizon < 0 \/ params.n_features < 0
    THEN Raise("ValueError")
    ELSE IF Len(d.wins) = 0
    THEN Res(Arr(params.horizon, params.n_features, <<>>))
    ELSE IF params.horizon >= 1 /\ d.steps = 0
    THEN Raise("IndexError")
    ELSE IF params.horizon = 0
    THEN Raise("ValueError")
    ELSE IF d.feat # params.n_features
    THEN Raise("ValueError")
    ELSE Res(Arr(params.horizon, params.n_features,
                 [b \in 1..Len(d.wins) |->
                     [i \in 1..params.horizon |-> d.wins[b][1]]]))

\* NaiveForecaster._predict
_predict(d, params) ==
    IF params.horizon < 0 \/ params.n_features < 0
    THEN Raise("ValueError")                     \* np.empty, negative size
    ELSE IF Len(d.wins) = 0
    THEN Res(Arr(params.horizon, params.n_features, <<>>))
    ELSE IF params.horizon >= 1 /\ d.steps = 0
    THEN Raise("IndexError")                     \* batch[-1] of an empty window
    ELSE IF params.horizon = 0
    THEN Raise("ValueError")                     \* concatenate: 3D with 2D
    ELSE IF d.feat # params.n_features
    THEN Raise("ValueError")                     \* concatenate: widths differ
    ELSE Res(Arr(params.horizon, params.n_features,
                 [b \in 1..Len(d.wins) |->
                     [i \in 1..params.horizon |-> d.wins[b][d.steps]]]))

\* np.append(a, b, axis=1)
AppendOk(a, b) == a.feat = b.feat /\ Len(a.wins) = Len(b.wins)
\* As Append1, pairing window i of a with window B - i + 1 of b.
Append1_rev(a, b) ==
    Arr(a.steps + b.steps, a.feat,
        [i \in 1..Len(a.wins) |-> a.wins[i] \o b.wins[Len(b.wins) - i + 1]])

Append1(a, b) ==
    Arr(a.steps + b.steps, a.feat,
        [i \in 1..Len(a.wins) |-> a.wins[i] \o b.wins[i]])

\* As Slice1, keeping every step.
Slice1_whole(a, lo, hi) == a

\* a[:, lo:hi, :]
Slice1(a, lo, hi) ==
    Arr(SliceIdx(hi, a.steps) - Min(SliceIdx(lo, a.steps), SliceIdx(hi, a.steps)),
        a.feat,
        [i \in 1..Len(a.wins) |-> Slice(a.wins[i], lo, hi)])

\* `predictions[i] = predictions[i][:n]` for every i: a window of k rows is
\* assigned to one of p.steps rows, which numpy does only by broadcasting.
TruncateOk(p, n) ==
    \/ Len(p.wins) = 0
    \/ Slice1(p, 0, n).steps = p.steps
    \/ Slice1(p, 0, n).steps = 1
Truncate(p, n) ==
    IF Slice1(p, 0, n).steps = p.steps THEN p
    ELSE Arr(p.steps, p.feat,
             [i \in 1..Len(p.wins) |-> [j \in 1..p.steps |-> p.wins[i][1]]])

Params == [n_features : 1..MaxF, look_back_length : 0..MaxL, horizon : -1..MaxH]

\* The arrays a caller can pass, [rank, steps, feat, wins, rows].  Rank 3:
\* steps, feat and wins as in Arr.  Rank 2, shape (T, F): rows is the sequence
\* of the T rows.  Rank 1, shape (T,): the same with one feature.  Any other
\* rank is 4.
Windows(b, l) == [1..b -> [1..l -> Vals]]
Raw(rank, steps, feat, wins, rows) ==
    [rank |-> rank, steps |-> steps, feat |-> feat, wins |-> wins, rows |-> rows]
Batches(rank, feats, counts) ==
    UNION {{Raw(rank, l, f, w, <<>>) :
                f \in feats, w \in UNION {Windows(b, l) : b \in counts}} :
           l \in 0..MaxL}
Inputs ==
    Batches(3, 1..MaxF, 0..MaxB)
    \cup {Raw(2, 0, f, <<>>, w) : f \in 1..MaxF, w \in Seqs(MaxL)}
    \cup {Raw(1, 0, 1, <<>>, w) : w \in Seqs(MaxL)}
    \cup {Raw(4, 0, 0, <<>>, <<>>)}

\* As Reshape3, making of a 1D array of T rows T windows of one row.
Reshape3_rows(d) ==
    IF d.rank = 1
    THEN Arr(1, 1, [i \in 1..Len(d.rows) |-> <<d.rows[i]>>])
    ELSE IF d.rank = 2 THEN Arr(Len(d.rows), d.feat, <<d.rows>>)
    ELSE Arr(d.steps, d.feat, d.wins)

\* The two np.reshape of forecasting: (T,) to (1, T, 1), (T, F) to (1, T, F).
Reshape3(d) ==
    IF d.rank = 1 THEN Arr(Len(d.rows), 1, <<d.rows>>)
    ELSE IF d.rank = 2 THEN Arr(Len(d.rows), d.feat, <<d.rows>>)
    ELSE Arr(d.steps, d.feat, d.wins)

\* ForecasterParameters(): the defaults of its __init__.
DefaultParams == [n_features |-> 1, look_back_length |-> 10, horizon |-> 1]

InitFC ==
    /\ model_params = DefaultParams
    /\ fc_pc = "none"
    /\ fc_input = Raw(4, 0, 0, <<>>, <<>>)
    /\ fc_data = NoArr
    /\ forecasting_data_length = 0
    /\ predictions = NoArr
    /\ batch = NoArr
    /\ fc_calls = <<>>
    /\ fc_ret = Raise("none")

\* NaiveForecaster.__init__ with a parameters object of any accepted content.
NaiveForecaster ==
    /\ fc_pc = "none"
    /\ model_params' \in Params
    /\ fc_pc' = "idle"
    /\ UNCHANGED <<fc_input, fc_data, forecasting_data_length, predictions,
                   batch, fc_calls, fc_ret, tsVars, fpVars, esVars>>

Call(b, r) == [batch |-> b, err |-> r.err, out |-> r.arr]

\* forecasting, up to its return or to the head of the while loop.
forecasting(d, len) ==
    LET n == IF IsNone(len) \/ Val(len) = 0 THEN model_params.horizon ELSE Val(len)
        x == Reshape3(d)
        r == _predict(x, model_params)
    IN
    /\ fc_pc = "idle"
    /\ fc_input' = d
    /\ forecasting_data_length' = n
    /\ IF d.rank \notin {1, 2, 3}
       THEN /\ fc_pc' = "done"
            /\ fc_ret' = Raise("AssertionError")
            /\ UNCHANGED <<fc_data, predictions, batch, fc_calls>>
       ELSE IF x.steps # model_params.look_back_length
       THEN /\ fc_pc' = "done"
            /\ fc_ret' = Raise("AssertionError")
            /\ fc_data' = x
            /\ UNCHANGED <<predictions, batch, fc_calls>>
       ELSE /\ fc_data' = x
            /\ IF n <= model_params.horizon
               THEN /\ fc_pc' = "done"
                    /\ fc_calls' = <<Call(x, r)>>
                    /\ fc_ret' =
                         IF r.err # "ok" THEN r
                         ELSE IF n < model_params.horizon
                              THEN IF TruncateOk(r.arr, n)
                                   THEN Res(Truncate(r.arr, n))
                                   ELSE Raise("ValueError")
                              ELSE r
                    /\ UNCHANGED <<predictions, batch>>
               ELSE /\ fc_pc' = "loop"
                    /\ predictions' = Arr(0, x.feat, [i \in 1..Len(x.wins) |-> <<>>])
                    /\ batch' = x
                    /\ UNCHANGED <<fc_calls, fc_ret>>
    /\ UNCHANGED <<model_params, tsVars, fpVars, esVars>>

Forecasting == \E d \in Inputs, len \in Opts(-1..MaxLen) : forecasting(d, len)

\* As LoopBody, with the loop test `<=` in place of `<`.
LoopBody_extra ==
    LET r == _predict(batch, model_params)
        kept == Slice1(batch, model_params.horizon, batch.steps)
    IN
    /\ fc_pc = "loop"
    /\ predictions.steps <= forecasting_data_length
    /\ Len(fc_calls) <= MaxLen
    /\ fc_calls' = Append(fc_calls, Call(batch, r))
    /\ IF r.err # "ok"
       THEN /\ fc_pc' = "done"
            /\ fc_ret' = r
            /\ UNCHANGED <<predictions, batch>>
       ELSE IF ~AppendOk(predictions, r.arr)
       THEN /\ fc_pc' = "done"
            /\ fc_ret' = Raise("ValueError")
            /\ UNCHANGED <<predictions, batch>>
       ELSE /\ predictions' = Append1(predictions, r.arr)
            /\ batch' = Append1(kept, r.arr)
            /\ UNCHANGED <<fc_pc, fc_ret>>
    /\ UNCHANGED <<model_params, fc_input, fc_data, forecasting_data_length,
                   tsVars, fpVars, esVars>>

\* One pass of `while predictions.shape[1] < forecasting_data_length`.  The
\* loop need not end; the model follows it for MaxLen + 1 calls of _predict.
LoopBody ==
    LET r == _predict(batch, model_params)
        kept == Slice1(batch, model_params.horizon, batch.steps)
    IN
    /\ fc_pc = "loop"
    /\ predictions.steps < forecasting_data_length
    /\ Len(fc_calls) <= MaxLen
    /\ fc_calls' = Append(fc_calls, Call(batch, r))
    /\ IF r.err # "ok"
       THEN /\ fc_pc' = "done"
            /\ fc_ret' = r
            /\ UNCHANGED <<predictions, batch>>
       ELSE IF ~AppendOk(predictions, r.arr)
       THEN /\ fc_pc' = "done"
            /\ fc_ret' = Raise("ValueError")
            /\ UNCHANGED <<predictions, batch>>
       ELSE /\ predictions' = Append1(predictions, r.arr)
            /\ batch' = Append1(kept, r.arr)
            /\ UNCHANGED <<fc_pc, fc_ret>>
    /\ UNCHANGED <<model_params, fc_input, fc_data, forecasting_data_length,
                   tsVars, fpVars, esVars>>

\* The loop test fails: truncate and return.
LoopExit ==
    /\ fc_pc = "loop"
    /\ ~(predictions.steps < forecasting_data_length)
    /\ predictions' = Slice1(predictions, 0, forecasting_data_length)
    /\ fc_ret' = Res(predictions')
    /\ fc_pc' = "done"
    /\ UNCHANGED <<model_params, fc_input, fc_data, forecasting_data_length,
                   batch, fc_calls, tsVars, fpVars, esVars>>

(***************************************************************************)
(* ForecasterParameters                                                    *)
(* A Python value is [t, v]: its type and, for an int or a bool, its value.*)
(***************************************************************************)

\* Largest integer assigned to a parameter.
MaxParam == 2

PyInt(i) == [t |-> "int", v |-> i]
PyValues ==
    {PyInt(i) : i \in -1..MaxParam}
    \cup {[t |-> "bool", v |-> 1], [t |-> "float", v |-> 1], [t |-> "str", v |-> 0]}

\* isinstance(val, int): bool is a subclass of int.
IsInstanceInt(val) == val.t \in {"int", "bool"}

FieldNames == {"n_features", "look_back_length", "horizon"}
AttrNames == FieldNames \cup {"units"}

\* The two assertions of __setattr__.
SetAttrOk(name, val) == name \in FieldNames /\ IsInstanceInt(val)

FpCall(op, name, val, status) ==
    [op |-> op, name |-> name, val |-> val, status |-> status]

InitFP ==
    /\ fp_state = "none"
    /\ fp = [f \in FieldNames |-> PyInt(0)]
    /\ fp_last = FpCall("none", "", PyInt(0), "ok")

\* ForecasterParameters(n_features, look_back_length, horizon): the three
\* assignments of __init__, in order; the first that fails ends it.
ForecasterParameters_init(nf, lb, h) ==
    LET ok == /\ SetAttrOk("n_features", nf)
              /\ SetAttrOk("look_back_length", lb)
              /\ SetAttrOk("horizon", h)
        bad == IF ~SetAttrOk("n_features", nf) THEN <<"n_features", nf>>
               ELSE IF ~SetAttrOk("look_back_length", lb) THEN <<"look_back_length", lb>>
               ELSE <<"horizon", h>>
    IN
    /\ fp_state = "none"
    /\ IF ok
       THEN /\ fp_state' = "live"
            /\ fp' = [n_features |-> nf, look_back_length |-> lb, horizon |-> h]
            /\ fp_last' = FpCall("init", "horizon", h, "ok")
       ELSE /\ fp_state' = "failed"
            /\ fp' = fp
            /\ fp_last' = FpCall("init", bad[1], bad[2], "AssertionError")
    /\ UNCHANGED <<tsVars, fcVars, esVars>>

ForecasterParametersInit ==
    \E nf \in PyValues, lb \in PyValues, h \in PyValues :
        ForecasterParameters_init(nf, lb, h)

\* p.name = val
__setattr__(name, val) ==
    /\ fp_state = "live"
    /\ IF SetAttrOk(name, val)
       THEN /\ fp' = [fp EXCEPT ![name] = val]
            /\ fp_last' = FpCall("setattr", name, val, "ok")
       ELSE /\ fp' = fp
            /\ fp_last' = FpCall("setattr", name, val, "AssertionError")
    /\ UNCHANGED <<fp_state, tsVars, fcVars, esVars>>

SetAttr == \E name \in AttrNames, val \in PyValues : __setattr__(name, val)

\* The fields after the assignments of from_dict to the items in order, up to
\* the first that fails.
RECURSIVE FromDictFields(_, _)
FromDictFields(f, items) ==
    IF items = <<>> THEN f
    ELSE IF ~SetAttrOk(items[1][1], items[1][2]) THEN f
    ELSE FromDictFields([f EXCEPT ![items[1][1]] = items[1][2]], Tail(items))

\* The first item from_dict cannot assign, <<>> if there is none.
RECURSIVE FromDictBad(_)
FromDictBad(items) ==
    IF items = <<>> THEN <<>>
    ELSE IF ~SetAttrOk(items[1][1], items[1][2]) THEN items[1]
    ELSE FromDictBad(Tail(items))

\* Dictionaries of one or two items, in insertion order.
Dicts ==
    {<<i>> : i \in AttrNames \X PyValues}
    \cup {<<p[1], p[2]>> :
            p \in {q \in (AttrNames \X PyValues) \X (AttrNames \X PyValues) :
                      q[1][1] # q[2][1]}}

from_dict(items) ==
    /\ fp_state = "live"
    /\ fp' = FromDictFields(fp, items)
    /\ fp_last' =
         IF FromDictBad(items) = <<>>
         THEN FpCall("from_dict", items[Len(items)][1], items[Len(items)][2], "ok")
         ELSE FpCall("from_dict", FromDictBad(items)[1], FromDictBad(items)[2],
                     "AssertionError")
    /\ UNCHANGED <<fp_state, tsVars, fcVars, esVars>>

FromDict == \E items \in Dicts : from_dict(items)

(***************************************************************************)
(* ForecastEstimator                                                       *)
(* A numpy array is [shape, flat]: its shape and its elements in C order,  *)
(* so that reshape keeps flat and replaces shape.                          *)
(***************************************************************************)

\* Largest number of elements of an array given to the estimator.
MaxElems == 2

\* The elements of the arrays.
Elems == {0, 2}

ModelNames == {"naive", "deep"}

RECURSIVE Prod(_)
Prod(shape) == IF shape = <<>> THEN 1 ELSE Head(shape) * Prod(Tail(shape))

NdArray(shape, flat) == [shape |-> shape, flat |-> flat]

Shapes(rank) == {s \in [1..rank -> 1..MaxElems] : Prod(s) <= MaxElems}

\* The arrays of the given numbers of axes.
Arrays(ranks) ==
    UNION {{NdArray(s, f) : f \in [1..Prod(s) -> Elems]} :
             s \in UNION {Shapes(r) : r \in ranks}}

\* The normalisation of set_true_values and set_pred_values to three axes.
Normalise(a) ==
    IF Len(a.shape) = 1 THEN NdArray(<<1, a.shape[1], 1>>, a.flat)
    ELSE IF Len(a.shape) = 2 THEN NdArray(<<1, a.shape[1], a.shape[2]>>, a.flat)
    ELSE a

RankOk(a) == Len(a.shape) \in {1, 2, 3}

\* A dict is the sequence of its items [name, val] in insertion order.
Keys(d) == {d[i].name : i \in DOMAIN d}

\* d[k] = v where every assignment adds an item.
DictSet_append(d, k, v) == Append(d, [name |-> k, val |-> v])

\* d[k] = v: an existing key keeps its place, a new key goes last.
DictSet(d, k, v) ==
    IF k \in Keys(d)
    THEN [i \in DOMAIN d |-> IF d[i].name = k THEN [name |-> k, val |-> v] ELSE d[i]]
    ELSE Append(d, [name |-> k, val |-> v])

\* pd.DataFrame(): no rows, no columns.  The index is a range of n labels
\* (kind "range") or a list of n names (kind "names").
RangeIndex(n) == [kind |-> "range", n |-> n, names |-> <<>>]
NamesIndex(names) == [kind |-> "names", n |-> Len(names), names |-> names]
DataFrame == [index |-> RangeIndex(0), columns |-> <<>>]

EsCall(op, status, name, arg, how) ==
    [op |-> op, status |-> status, name |-> name, arg |-> arg, how |-> how]

NoArg == NdArray(<<>>, <<0>>)

InitES ==
    /\ es_state = "none"
    /\ features_names = None
    /\ true = None
    /\ pred = <<>>
    /\ quality = DataFrame
    /\ es_last = EsCall("none", "ok", "", NoArg, "")

\* ForecastEstimator(features_names)
ForecastEstimator_init(names) ==
    /\ es_state = "none"
    /\ es_state' = "live"
    /\ features_names' = names
    /\ true' = None
    /\ pred' = <<>>
    /\ quality' = DataFrame
    /\ es_last' = EsCall("init", "ok", "", NoArg, "")
    /\ UNCHANGED <<tsVars, fcVars, fpVars>>

ForecastEstimator == ForecastEstimator_init(None)

set_true_values(a) ==
    /\ es_state = "live"
    /\ IF RankOk(a)
       THEN /\ true' = Some(Normalise(a))
            /\ es_last' = EsCall("set_true_values", "ok", "", a, "")
       ELSE /\ true' = true
            /\ es_last' = EsCall("set_true_values", "AssertionError", "", a, "")
    /\ UNCHANGED <<es_state, features_names, pred, quality, tsVars, fcVars, fpVars>>

set_pred_values(a, model_name) ==
    /\ es_state = "live"
    /\ IF RankOk(a)
       THEN /\ pred' = DictSet(pred, model_name, Normalise(a))
            /\ es_last' = EsCall("set_pred_values", "ok", model_name, a, "")
       ELSE /\ pred' = pred
            /\ es_last' = EsCall("set_pred_values", "AssertionError", model_name, a, "")
    /\ UNCHANGED <<es_state, features_names, true, quality, tsVars, fcVars, fpVars>>

\* Arrays of no axis (rejected) and of one, two and three axes.
AnyArrays == Arrays(0..3)

SetPred == \E a \in AnyArrays, n \in ModelNames : set_pred_values(a, n)

(***************************************************************************)
(* The metrics.  A rational is <<numerator, denominator>> in lowest terms  *)
(* with a positive denominator.  A metric value is [k, q]: the rational    *)
(* q[1] (k = "num"), the mean of the square roots of the rationals q       *)
(* (k = "msqrt"), or NaN (k = "nan").                                      *)
(***************************************************************************)

Abs(x) == IF x < 0 THEN -x ELSE x

RECURSIVE GCD(_, _)
GCD(a, b) == IF b = 0 THEN a ELSE GCD(b, a % b)

Rat(n, d) == LET g == GCD(Abs(n), d) IN <<n \div g, d \div g>>

RatAdd(a, b) == Rat(a[1] * b[2] + b[1] * a[2], a[2] * b[2])

RECURSIVE RatSum(_)
RatSum(qs) == IF qs = <<>> THEN <<0, 1>> ELSE RatAdd(Head(qs), RatSum(Tail(qs)))

\* np.average of the values of the columns (multioutput = 'uniform_average').
Average(qs) == Rat(RatSum(qs)[1], RatSum(qs)[2] * Len(qs))

Num(q) == [k |-> "num", q |-> <<q>>]
NaN == [k |-> "nan", q |-> <<>>]
MeanSqrt(qs) == [k |-> "msqrt", q |-> qs]

RECURSIVE Sum(_, _)
Sum(f, n) == IF n = 0 THEN 0 ELSE f[n] + Sum(f, n - 1)

\* Row r of the array flat seen with rows of `width` elements.
Row(flat, width, r) == [c \in 1..width |-> flat[(r - 1) * width + c]]

\* Column c of the array flat seen as n rows of `width` elements.
Col(flat, n, width, c) == [r \in 1..n |-> flat[(r - 1) * width + c]]

SqErr(t, p) == Sum([i \in DOMAIN t |-> (t[i] - p[i]) * (t[i] - p[i])], Len(t))
AbsErr(t, p) == Sum([i \in DOMAIN t |-> Abs(t[i] - p[i])], Len(t))

\* sklearn's r2_score of one column of n >= 2 samples (force_finite): a
\* constant true column scores 1 when the prediction is exact and 0 otherwise.
R2Col(t, p) ==
    LET n == Len(t)
        tot == n * Sum([i \in DOMAIN t |-> t[i] * t[i]], n) - Sum(t, n) * Sum(t, n)
    IN IF tot = 0
       THEN (IF SqErr(t, p) = 0 THEN <<1, 1>> ELSE <<0, 1>>)
       ELSE Rat(tot - n * SqErr(t, p), tot)

\* The values of a features-mode column: one per feature, then the aggregate.
mean_squared_error(tf, pf, n, F) ==
    LET raw == [c \in 1..F |-> Rat(SqErr(Col(tf, n, F, c), Col(pf, n, F, c)), n)]
    IN [c \in 1..F |-> Num(raw[c])] \o <<Num(Average(raw))>>

root_mean_squared_error(tf, pf, n, F) ==
    LET raw == [c \in 1..F |-> Rat(SqErr(Col(tf, n, F, c), Col(pf, n, F, c)), n)]
    IN [c \in 1..F |-> MeanSqrt(<<raw[c]>>)] \o <<MeanSqrt(raw)>>

mean_absolute_error(tf, pf, n, F) ==
    LET raw == [c \in 1..F |-> Rat(AbsErr(Col(tf, n, F, c), Col(pf, n, F, c)), n)]
    IN [c \in 1..F |-> Num(raw[c])] \o <<Num(Average(raw))>>

\* With fewer than two samples r2_score returns the scalar NaN whatever
\* multioutput is, and np.append of the two scalars has two elements.
r2_score(tf, pf, n, F) ==
    LET raw == [c \in 1..F |-> R2Col(Col(tf, n, F, c), Col(pf, n, F, c))]
    IN IF n < 2 THEN <<NaN, NaN>>
       ELSE [c \in 1..F |-> Num(raw[c])] \o <<Num(Average(raw))>>

Column(name, vals) == [name |-> name, vals |-> vals]

\* The four columns of one model in features mode, in the metrics' order
\* R2, MAE, RMSE, MSE.
FeaturesColumns_reversed(model_name, tf, pf, n, F) ==
    << Column(model_name \o "_R2", r2_score(tf, pf, n, F)),
       Column(model_name \o "_MAE", mean_absolute_error(tf, pf, n, F)),
       Column(model_name \o "_RMSE", root_mean_squared_error(tf, pf, n, F)),
       Column(model_name \o "_MSE", mean_squared_error(tf, pf, n, F)) >>

\* The four columns of one model in features mode, in the order of their
\* assignments.
FeaturesColumns(model_name, tf, pf, n, F) ==
    << Column(model_name \o "_MSE", mean_squared_error(tf, pf, n, F)),
       Column(model_name \o "_RMSE", root_mean_squared_error(tf, pf, n, F)),
       Column(model_name \o "_MAE", mean_absolute_error(tf, pf, n, F)),
       Column(model_name \o "_R2", r2_score(tf, pf, n, F)) >>

\* As TimeStepsColumns, with a third column RMSE.
TimeStepsColumns_rmse(model_name, tf, pf, B, width) ==
    << Column(model_name \o "_MSE",
              [b \in 1..B |-> Num(Rat(SqErr(Row(tf, width, b), Row(pf, width, b)), width))]),
       Column(model_name \o "_RMSE",
              [b \in 1..B |->
                 MeanSqrt(<<Rat(SqErr(Row(tf, width, b), Row(pf, width, b)), width)>>)]),
       Column(model_name \o "_MAE",
              [b \in 1..B |-> Num(Rat(AbsErr(Row(tf, width, b), Row(pf, width, b)), width))]) >>

\* The two columns of one model in time_steps mode: one value per row of the
\* B rows of `width` elements.
TimeStepsColumns(model_name, tf, pf, B, width) ==
    << Column(model_name \o "_MSE",
              [b \in 1..B |-> Num(Rat(SqErr(Row(tf, width, b), Row(pf, width, b)), width))]),
       Column(model_name \o "_MAE",
              [b \in 1..B |-> Num(Rat(AbsErr(Row(tf, width, b), Row(pf, width, b)), width))]) >>

(***************************************************************************)
(* The DataFrame operations estimate uses.  Each gives [status, frame].    *)
(***************************************************************************)

Done(status, frame) == [status |-> status, frame |-> frame]

\* frame[name] = vals: a frame without rows takes its rows from vals;
\* otherwise vals must have one value per row.  An existing column is
\* replaced in place, a new one goes last.
SetColumn(frame, col) ==
    LET names == {frame.columns[i].name : i \in DOMAIN frame.columns}
        columns == IF col.name \in names
                   THEN [i \in DOMAIN frame.columns |->
                           IF frame.columns[i].name = col.name THEN col
                           ELSE frame.columns[i]]
                   ELSE Append(frame.columns, col)
    IN IF frame.index.n = 0 /\ Len(col.vals) > 0
       THEN Done("ok", [index |-> RangeIndex(Len(col.vals)), columns |-> columns])
       ELSE IF Len(col.vals) # frame.index.n
       THEN Done("ValueError", frame)
       ELSE Done("ok", [frame EXCEPT !.columns = columns])

\* The assignments of the columns cols in order, up to the first that fails.
RECURSIVE SetColumns(_, _)
SetColumns(frame, cols) ==
    IF cols = <<>> THEN Done("ok", frame)
    ELSE LET r == SetColumn(frame, Head(cols))
         IN IF r.status # "ok" THEN r ELSE SetColumns(r.frame, Tail(cols))

\* frame.index = index: a frame without columns takes any index; otherwise
\* the index must have one label per row.
SetIndex(frame, index) ==
    IF frame.columns # <<>> /\ index.n # frame.index.n
    THEN Done("ValueError", frame)
    ELSE Done("ok", [frame EXCEPT !.index = index])

\* str(i) of a feature number.
Str(i) == <<"0", "1", "2", "3", "4", "5", "6", "7", "8", "9">>[i + 1]

\* The loop of features mode over the items of the dict, from the frame so
\* far: the length assertion, the reshape to true's (B * H, F), the columns.
RECURSIVE FeaturesLoop(_, _, _)
FeaturesLoop(frame, items, t) ==
    LET n == t.shape[1] * t.shape[2]
        F == t.shape[3]
        p == Head(items).val
    IN IF items = <<>> THEN Done("ok", frame)
       ELSE IF t.shape[1] # p.shape[1] THEN Done("AssertionError", frame)
       ELSE IF Prod(p.shape) # n * F THEN Done("ValueError", frame)
       ELSE LET r == SetColumns(frame,
                       FeaturesColumns(Head(items).name, t.flat, p.flat, n, F))
            IN IF r.status # "ok" THEN r ELSE FeaturesLoop(r.frame, Tail(items), t)

\* The loop of time_steps mode: the reshape to true's (B, H * F), the columns.
RECURSIVE TimeStepsLoop(_, _, _)
TimeStepsLoop(frame, items, t) ==
    LET B == t.shape[1]
        width == t.shape[2] * t.shape[3]
        p == Head(items).val
    IN IF items = <<>> THEN Done("ok", frame)
       ELSE IF Prod(p.shape) # B * width THEN Done("ValueError", frame)
       ELSE LET r == SetColumns(frame,
                       TimeStepsColumns(Head(items).name, t.flat, p.flat, B, width))
            IN IF r.status # "ok" THEN r ELSE TimeStepsLoop(r.frame, Tail(items), t)

EstimateFeatures(t, items, names) ==
    LET fn == (IF IsNone(names) THEN [i \in 1..t.shape[3] |-> Str(i - 1)]
               ELSE Val(names)) \o <<"ALL_FEATURES">>
        r == FeaturesLoop(DataFrame, items, t)
    IN IF r.status # "ok" THEN r ELSE SetIndex(r.frame, NamesIndex(fn))

EstimateTimeSteps(t, items) ==
    TimeStepsLoop(SetIndex(DataFrame, RangeIndex(t.shape[1])).frame, items, t)

\* estimate(how) on an estimator holding tr, items, names and the frame q:
\* the outcome and the frame left in self.quality.
Estimate(how, tr, items, names, q) ==
    IF how \notin {"features", "time_steps"} THEN Done("AssertionError", q)
    ELSE IF IsNone(tr) THEN Done("AssertionError", q)
    ELSE IF how = "features" THEN EstimateFeatures(Val(tr), items, names)
    ELSE EstimateTimeSteps(Val(tr), items)

estimate(how) ==
    /\ es_state = "live"
    /\ \E r \in {Estimate(how, true, pred, features_names, quality)} :
          /\ quality' = r.frame
          /\ es_last' = EsCall("estimate", r.status, "", NoArg, how)
    /\ UNCHANGED <<es_state, features_names, true, pred, tsVars, fcVars, fpVars>>

Hows == {"features", "time_steps", "timesteps"}

EstimateAny == \E how \in Hows : estimate(how)

\* Arrays of three axes.
Tensors == Arrays({3})

\* The values are registered before the evaluations.
RegisterTrue ==
    /\ es_last.op # "estimate"
    /\ \E a \in Tensors : set_true_values(a)

RegisterPred ==
    /\ es_last.op # "estimate"
    /\ \E a \in Tensors, n \in ModelNames : set_pred_values(a, n)

\* The arrays of three axes whose elements are all zero.
ZeroTensors == {a \in Tensors : \A i \in DOMAIN a.flat : a.flat[i] = 0}

SetTrueZeros == \E a \in ZeroTensors : set_true_values(a)

SetPredZeros == \E a \in ZeroTensors, n \in ModelNames : set_pred_values(a, n)

\* Largest length of an axis of the arrays of zeros of SpecShape.
MaxDim == 2

\* np.zeros((b, h, f))
ZeroBlocks ==
    {NdArray(<<b, h, f>>, [i \in 1..(b * h * f) |-> 0]) :
        b \in 1..MaxDim, h \in 1..MaxDim, f \in 1..MaxDim}

\* Arrays of zeros are registered before the evaluations.
RegisterTrueZeros ==
    /\ es_last.op # "estimate"
    /\ \E a \in ZeroBlocks : set_true_values(a)

RegisterPredZeros ==
    /\ es_last.op # "estimate"
    /\ \E a \in ZeroBlocks, n \in ModelNames : set_pred_values(a, n)

\* The state before any call.  The generator specifications leave the
\* forecaster alone and the forecaster specification the generator.
Init ==
    /\ InitTS
    /\ InitFC
    /\ InitFP
    /\ InitES

\* A generator over its life: constructed, then re-windowed any number of times.
Next == Construct \/ ChangeHorizon

Spec == Init /\ [][Next]_vars

\* A generator and its accessors.
NextGet == Construct \/ get_data \/ get_targets

SpecGet == Init /\ [][NextGet]_vars

\* A generator and its accessors called with a sample.
NextSample == Construct \/ get_data_sample \/ get_targets_sample

SpecSample == Init /\ [][NextSample]_vars

\* One call of forecasting on a forecaster with any parameters.
NextFC == NaiveForecaster \/ Forecasting \/ LoopBody \/ LoopExit

SpecFC == Init /\ [][NextFC]_vars

\* One parameters object: built, then assigned to.
NextFP == ForecasterParametersInit \/ SetAttr \/ FromDict

SpecFP == Init /\ [][NextFP]_vars

\* One estimator: built, then given predictions.
NextReg == ForecastEstimator \/ SetPred

SpecReg == Init /\ [][NextReg]_vars

\* One estimator: built, given true values and predictions, then evaluated.
NextEval == ForecastEstimator \/ RegisterTrue \/ RegisterPred \/ EstimateAny

SpecEval == Init /\ [][NextEval]_vars

\* One estimator given arrays of zeros and evaluated, in any order.
NextTable == ForecastEstimator \/ SetTrueZeros \/ SetPredZeros \/ EstimateAny

SpecTable == Init /\ [][NextTable]_vars

\* One estimator given arrays of zeros of every shape, then evaluated.
NextShape == ForecastEstimator \/ RegisterTrueZeros \/ RegisterPredZeros \/ EstimateAny

SpecShape == Init /\ [][NextShape]_vars

(***************************************************************************)
(* Properties of TSGenerator                                               *)
(***************************************************************************)

Constructed == last.op = "construct" /\ last.status = "ok"

\* What the specification accepts as look-back length and horizon.
ValidLH(T, L, H) == L \in 1..(T - 1) /\ H \in 1..(T - L)

\* C1: after a successful construction from S = last.x, input window i is
\* S[i : i+L] and target window i is S[i+L : i+L+H], for every window i.
C1_Alignment ==
    Constructed =>
        \A i \in 0..(Len(data) - 1) :
            /\ data[i + 1] = SubSeq(last.x, i + 1, i + last.L)
            /\ targets[i + 1] = SubSeq(last.x, i + last.L + 1, i + last.L + last.H)

C1_Witness ==
    /\ Constructed
    /\ Len(data) >= 2 /\ last.L >= 1 /\ last.H >= 2
    /\ \E i \in 1..Len(last.x) - 1 : last.x[i] # last.x[i + 1]

\* C6: every accepted construction has exactly N = T - L - H + 1 >= 1 input
\* windows and as many target windows.
C6_WindowCount ==
    Constructed =>
        /\ Len(data) = Len(last.x) - last.L - last.H + 1
        /\ Len(data) >= 1
        /\ Len(targets) = Len(data)

C6_Witness ==
    Constructed /\ Len(data) = 3 /\ Len(targets) = 3 /\ last.L >= 1 /\ last.H >= 1

\* C7 as stated: a construction with L + H - 1 = T succeeds with one window.
C7_Original ==
    (last.op = "construct" /\ last.L >= 1 /\ last.H >= 1
        /\ last.L + last.H - 1 = Len(last.x))
    => (last.status = "ok" /\ gen = "ready" /\ Len(data) = 1)

\* C7 amended: a construction with L + H = T (L >= 1, H >= 1) succeeds and
\* yields exactly one window.
C7_OneWindow ==
    (last.op = "construct" /\ last.L >= 1 /\ last.H >= 1
        /\ last.L + last.H = Len(last.x))
    => (last.status = "ok" /\ gen = "ready" /\ Len(data) = 1 /\ Len(targets) = 1)

C7_Witness ==
    /\ Constructed /\ last.L >= 1 /\ last.H >= 2
    /\ last.L + last.H = Len(last.x) /\ Len(data) = 1

\* C8: a construction whose look-back length is not in [1, T-1] or whose
\* horizon is not in [1, T - L] fails and produces no generator.
C8_Rejects ==
    (last.op = "construct" /\ ~ValidLH(Len(last.x), last.L, last.H))
    => (last.status # "ok" /\ gen # "ready")

\* C2: on a generator constructed with valid L and H, get_data(flatten=True)
\* returns the first N + L - 1 rows of the sequence and
\* get_targets(flatten=True) the N + H - 1 rows from row L on.
C2_RoundTrip ==
    (/\ gen = "ready" /\ ValidLH(Len(seq), look_back_length, horizon)
     /\ last.op \in {"get_data", "get_targets"}
     /\ last.flatten /\ IsNone(last.window_id) /\ IsNone(last.sample))
    => /\ ret.kind = "flat"
       /\ last.op = "get_data" =>
            ret.val = SubSeq(seq, 1, Len(data) + look_back_length - 1)
       /\ last.op = "get_targets" =>
            ret.val = SubSeq(seq, look_back_length + 1,
                             look_back_length + Len(targets) + horizon - 1)

\* C10: with N windows, window_id = i succeeds exactly when -N <= i <= N-1,
\* returning window i alone under a leading axis; any other i fails.
C10_WindowId ==
    (/\ gen = "ready" /\ ValidLH(Len(seq), look_back_length, horizon)
     /\ last.op \in {"get_data", "get_targets"}
     /\ ~last.flatten /\ ~IsNone(last.window_id))
    => LET x == IF last.op = "get_data" THEN data ELSE targets
           i == Val(last.window_id)
       IN  IF -Len(x) <= i /\ i <= Len(x) - 1
           THEN ret.kind = "windows" /\ ret.val = <<PyIndex(x, i)>>
           ELSE ret.kind = "error"

\* C11: on a valid generator, sample=(s, e) with 0 <= s <= e <= N returns the
\* windows s..e-1 in order, e - s of them; a None start stands for 0, a None
\* end for N, and an integer endpoint, 0 included, is taken as given.
C11_Sample ==
    (/\ gen = "ready" /\ ValidLH(Len(seq), look_back_length, horizon)
     /\ last.op \in {"get_data", "get_targets"}
     /\ ~last.flatten /\ IsNone(last.window_id) /\ ~IsNone(last.sample))
    => LET x == IF last.op = "get_data" THEN data ELSE targets
           s == IF IsNone(last.sample[1]) THEN 0 ELSE Val(last.sample[1])
           e == IF IsNone(last.sample[2]) THEN Len(x) ELSE Val(last.sample[2])
       IN  (0 <= s /\ s <= e /\ e <= Len(x))
           => /\ ret.kind = "windows"
              /\ Len(ret.val) = e - s
              /\ ret.val = SubSeq(x, s + 1, e)

\* C3: change_horizon(h) on a generator just built from S = last.x rebuilds
\* S and leaves the windows of a fresh construction from S with horizon h.
C3_Rebuild ==
    [][(/\ Constructed /\ ValidLH(Len(last.x), last.L, last.H)
        /\ last'.op = "change_horizon" /\ last'.status = "ok")
       => /\ last'.x = last.x
          /\ data' = TemporalityData(last.x, look_back_length, last'.H)
          /\ targets' = TemporalityTargets(last.x, look_back_length, last'.H)]_vars

\* C9: a second change_horizon(H) right after a successful change_horizon(H)
\* succeeds and leaves input and target windows as the first call left them.
C9_Idempotent ==
    [][(/\ last.op = "change_horizon" /\ last.status = "ok"
        /\ ValidLH(Len(seq), look_back_length, last.H)
        /\ last'.op = "change_horizon" /\ last'.H = last.H)
       => (last'.status = "ok" /\ data' = data /\ targets' = targets)]_vars

(***************************************************************************)
(* Properties of NaiveForecaster.forecasting                               *)
(***************************************************************************)

\* C4: a forecast of a batch of at least one window that returns has exactly
\* forecasting_data_length steps along the horizon axis, for every requested
\* length >= 1.
C4_Length ==
    (/\ fc_pc = "done" /\ fc_ret.err = "ok"
     /\ Len(fc_data.wins) >= 1 /\ forecasting_data_length >= 1)
    => fc_ret.arr.steps = forecasting_data_length

\* Window b of the original input followed by what the first k calls of
\* _predict returned for it.
RECURSIVE Chained(_, _)
Chained(b, k) ==
    IF k = 0 THEN fc_data.wins[b]
    ELSE Chained(b, k - 1) \o fc_calls[k].out.wins[b]

LastRows(s, n) == SubSeq(s, Len(s) - n + 1, Len(s))

\* C5: in a multi-step forecast with L >= 1, H >= 1 and B >= 1, every batch
\* handed to _predict has shape (B, L, F) and holds, per window, the last L
\* rows of the original input followed by all predictions made so far.
C5_Batch ==
    (/\ fc_pc \in {"loop", "done"} /\ Len(fc_data.wins) >= 1
     /\ model_params.look_back_length >= 1 /\ model_params.horizon >= 1
     /\ forecasting_data_length > model_params.horizon)
    => \A k \in 1..Len(fc_calls) :
        /\ fc_calls[k].batch.steps = model_params.look_back_length
        /\ fc_calls[k].batch.feat = fc_data.feat
        /\ Len(fc_calls[k].batch.wins) = Len(fc_data.wins)
        /\ \A b \in 1..Len(fc_data.wins) :
             fc_calls[k].batch.wins[b] =
                LastRows(Chained(b, k - 1), model_params.look_back_length)

\* ceil(n / h) for h >= 1.
CeilDiv(n, h) == (n + h - 1) \div h

\* C12: with H >= 1 and length >= 1, a forecast that returns has called
\* _predict once if length <= H and ceil(length / H) times otherwise; inside
\* the loop every call so far added H steps and was made while fewer than
\* length steps had been gathered.
C12_Calls ==
    (/\ fc_pc \in {"loop", "done"}
     /\ model_params.horizon >= 1 /\ forecasting_data_length >= 1)
    => /\ (fc_pc = "done" /\ fc_ret.err = "ok") =>
            Len(fc_calls) =
                IF forecasting_data_length <= model_params.horizon THEN 1
                ELSE CeilDiv(forecasting_data_length, model_params.horizon)
       /\ fc_pc = "loop" =>
            /\ predictions.steps = Len(fc_calls) * model_params.horizon
            /\ Len(fc_calls) >= 1 =>
                 (Len(fc_calls) - 1) * model_params.horizon < forecasting_data_length

C12_Witness ==
    /\ fc_pc = "done" /\ fc_ret.err = "ok" /\ Len(fc_data.wins) >= 1
    /\ model_params.horizon = 2 /\ forecasting_data_length = 4
    /\ Len(fc_calls) = 2

C14_Persistence ==
    \A k \in 1..Len(fc_calls) :
        (/\ fc_calls[k].err = "ok"
         /\ fc_calls[k].batch.feat = model_params.n_features
         /\ fc_calls[k].batch.steps >= 1)
        => /\ fc_calls[k].out.steps = model_params.horizon
           /\ fc_calls[k].out.feat = fc_calls[k].batch.feat
           /\ Len(fc_calls[k].out.wins) = Len(fc_calls[k].batch.wins)
           /\ \A b \in 1..Len(fc_calls[k].batch.wins) :
                /\ Len(fc_calls[k].out.wins[b]) = model_params.horizon
                /\ \A h \in 1..model_params.horizon :
                     fc_calls[k].out.wins[b][h] =
                        fc_calls[k].batch.wins[b][fc_calls[k].batch.steps]

C14_Witness ==
    \E k \in 1..Len(fc_calls) :
        /\ fc_calls[k].err = "ok" /\ model_params.horizon = 2
        /\ fc_calls[k].batch.steps = 2 /\ Len(fc_calls[k].batch.wins) = 2
        /\ fc_calls[k].batch.wins[1][1] # fc_calls[k].batch.wins[1][2]
        /\ fc_calls[k].out.wins[1] # fc_calls[k].out.wins[2]

\* C15: forecasting makes of a 1D or 2D input one window of its rows (rank 3,
\* one batch element) and fails when the rank is not 1, 2 or 3 or the input's
\* time axis is not look_back_length long; when it fails so, _predict has
\* not been called.
C15_Shape ==
    fc_pc \in {"loop", "done"}
    => LET bad_rank == fc_input.rank \notin {1, 2, 3}
           time_len == IF fc_input.rank \in {1, 2} THEN Len(fc_input.rows)
                       ELSE fc_input.steps
           bad == bad_rank \/ time_len # model_params.look_back_length
       IN  /\ bad => /\ fc_pc = "done"
                     /\ fc_ret.err = "AssertionError"
                     /\ fc_calls = <<>>
           /\ ~bad => (fc_ret.err # "AssertionError" /\ fc_data.steps = time_len)
           /\ (~bad_rank /\ fc_input.rank \in {1, 2}) =>
                /\ Len(fc_data.wins) = 1
                /\ fc_data.wins[1] = fc_input.rows
                /\ fc_data.feat = IF fc_input.rank = 1 THEN 1 ELSE fc_input.feat

C15_WitnessReshape ==
    /\ fc_pc = "done" /\ fc_input.rank = 1 /\ Len(fc_input.rows) = 2
    /\ model_params.look_back_length = 2 /\ fc_ret.err = "ok"

C15_WitnessFail ==
    /\ fc_pc = "done" /\ fc_input.rank = 3 /\ Len(fc_input.wins) = 2
    /\ fc_input.steps # model_params.look_back_length
    /\ fc_ret.err = "AssertionError"

(***************************************************************************)
(* Properties of ForecasterParameters                                      *)
(***************************************************************************)

\* What the specification accepts as a parameter value: an integer >= 1.
ValidParam(val) == val.t = "int" /\ val.v >= 1

\* C17: an assignment of a value that is not an integer >= 1, or to a name
\* that is not a parameter, fails; every live parameters object has
\* n_features >= 1, look_back_length >= 1 and horizon >= 1.
C17_FailFast ==
    /\ (fp_last.op # "none"
        /\ (fp_last.name \notin FieldNames \/ ~ValidParam(fp_last.val)))
       => fp_last.status # "ok"
    /\ fp_state = "live" => \A f \in FieldNames : ValidParam(fp[f])

(***************************************************************************)
(* Properties of ForecastEstimator                                         *)
(***************************************************************************)

\* The predictions a dict holds under the name k.
Entries(d, k) == {d[i].val : i \in {j \in DOMAIN d : d[j].name = k}}

\* C18: latest wins.  A set_pred_values call with an array of one to three
\* axes succeeds whether or not the name is already there; after it the dict
\* holds one item per distinct name, the item of the call's name is the
\* (normalised) array of the call, and the items of the other names are the
\* ones held before.
C18_LatestWins ==
    [][(es_last'.op = "set_pred_values" /\ RankOk(es_last'.arg)) =>
          /\ es_last'.status = "ok"
          /\ Len(pred') = Cardinality(Keys(pred'))
          /\ Entries(pred', es_last'.name) = {Normalise(es_last'.arg)}
          /\ \A m \in ModelNames \ {es_last'.name} :
                Entries(pred', m) = Entries(pred, m)]_vars

\* Two names are held and the last call stored under the first of them: it
\* overwrote an item.
C18_Witness ==
    /\ es_last.op = "set_pred_values"
    /\ es_last.status = "ok"
    /\ Len(pred) = 2
    /\ pred[1].name = es_last.name
    /\ pred[1].val = Normalise(es_last.arg)
    /\ Len(es_last.arg.shape) = 2

\* Some registered prediction has another number of batches than the true
\* values.
BatchMismatch ==
    /\ ~IsNone(true)
    /\ \E i \in DOMAIN pred : pred[i].val.shape[1] # Val(true).shape[1]

\* C16: estimate('features') with a registered prediction whose number of
\* batches differs from that of the true values fails and leaves no metric
\* column, wherever the prediction stands in the registration order.
\* (Checked for true values of two samples or more.)
C16_Mismatch ==
    (/\ es_last.op = "estimate"
     /\ es_last.how = "features"
     /\ BatchMismatch
     /\ Val(true).shape[1] * Val(true).shape[2] >= 2)
    => (es_last.status # "ok" /\ quality.columns = <<>>)

ModelOrder(d) == [i \in DOMAIN d |-> d[i].name]
ColumnNames(frame) == [i \in DOMAIN frame.columns |-> frame.columns[i].name]

\* The column names the models in the given order should produce.
RECURSIVE ExpectedColumns(_, _)
ExpectedColumns(names, how) ==
    IF names = <<>> THEN <<>>
    ELSE (IF how = "features"
          THEN <<Head(names) \o "_MSE", Head(names) \o "_RMSE",
                 Head(names) \o "_MAE", Head(names) \o "_R2">>
          ELSE <<Head(names) \o "_MSE", Head(names) \o "_MAE">>)
         \o ExpectedColumns(Tail(names), how)

Range(s) == {s[i] : i \in DOMAIN s}

IsPrefix(s, t) == Len(s) <= Len(t) /\ SubSeq(t, 1, Len(s)) = s

\* C19: the dict keeps the models in the order of their first registration
\* (a call adds its name last or leaves the order alone), and a table that
\* estimate has filled holds, model by model in that order, the columns MSE,
\* RMSE, MAE, R2 (features) or MSE, MAE (time_steps): all of them after a
\* successful call, the first of them after a failed one.
C19_ColumnOrder ==
    /\ [][\/ ModelOrder(pred') = ModelOrder(pred)
          \/ /\ es_last'.op = "set_pred_values"
             /\ es_last'.name \notin Keys(pred)
             /\ ModelOrder(pred') = Append(ModelOrder(pred), es_last'.name)
          \/ es_last'.op = "init"]_vars
    /\ []((/\ es_last.op = "estimate"
           /\ es_last.how \in {"features", "time_steps"}
           /\ ~IsNone(true))
          => /\ IsPrefix(ColumnNames(quality),
                         ExpectedColumns(ModelOrder(pred), es_last.how))
             /\ es_last.status = "ok" =>
                  ColumnNames(quality) = ExpectedColumns(ModelOrder(pred), es_last.how))

\* A successful features-mode evaluation of two models, "deep" registered
\* first.
C19_Witness ==
    /\ es_last.op = "estimate"
    /\ es_last.status = "ok"
    /\ es_last.how = "features"
    /\ ModelOrder(pred) = <<"deep", "naive">>
    /\ Len(quality.columns) = 8

IsZero(v) == v.k \in {"num", "msqrt"} /\ \A j \in DOMAIN v.q : v.q[j] = <<0, 1>>
IsOne(v) == v = Num(<<1, 1>>)

\* The frame has the column `name`, of `rows` values that all satisfy P.
HasColumn(frame, name, rows, P(_)) ==
    \E i \in DOMAIN frame.columns :
        /\ frame.columns[i].name = name
        /\ Len(frame.columns[i].vals) = rows
        /\ \A j \in 1..rows : P(frame.columns[i].vals[j])

\* C20: when every registered prediction is the true array itself,
\* estimate('features') succeeds with MSE = 0, RMSE = 0, MAE = 0 and R2 = 1
\* in each of the F + 1 rows of each model, and estimate('time_steps')
\* succeeds with MSE = 0 and MAE = 0 in each of the B rows.
C20_Identical ==
    (/\ es_last.op = "estimate"
     /\ es_last.how \in {"features", "time_steps"}
     /\ ~IsNone(true)
     /\ pred # <<>>
     /\ \A i \in DOMAIN pred : pred[i].val = Val(true))
    => /\ es_last.status = "ok"
       /\ \A i \in DOMAIN pred :
            IF es_last.how = "features"
            THEN LET rows == Val(true).shape[3] + 1
                 IN /\ HasColumn(quality, pred[i].name \o "_MSE", rows, IsZero)
                    /\ HasColumn(quality, pred[i].name \o "_RMSE", rows, IsZero)
                    /\ HasColumn(quality, pred[i].name \o "_MAE", rows, IsZero)
                    /\ HasColumn(quality, pred[i].name \o "_R2", rows, IsOne)
            ELSE LET rows == Val(true).shape[1]
                 IN /\ HasColumn(quality, pred[i].name \o "_MSE", rows, IsZero)
                    /\ HasColumn(quality, pred[i].name \o "_MAE", rows, IsZero)

\* C21: after a successful estimate('features') on true values of shape
\* (B, H, F) and M models the table has the F + 1 rows "0" .. "F-1",
\* "ALL_FEATURES" and the 4 * M columns {model}_MSE, _RMSE, _MAE, _R2, each
\* of F + 1 values; after a successful estimate('time_steps') it has the B
\* rows 0 .. B-1 and the 2 * M columns {model}_MSE, {model}_MAE, each of B
\* values.
C21_Structure ==
    (es_last.op = "estimate" /\ es_last.status = "ok")
    => LET t == Val(true)
           rows == IF es_last.how = "features" THEN t.shape[3] + 1 ELSE t.shape[1]
       IN /\ quality.index =
               (IF es_last.how = "features"
                THEN NamesIndex([i \in 1..t.shape[3] |-> Str(i - 1)] \o <<"ALL_FEATURES">>)
                ELSE RangeIndex(t.shape[1]))
          /\ Len(quality.columns) =
               (IF es_last.how = "features" THEN 4 ELSE 2) * Len(pred)
          /\ ColumnNames(quality) = ExpectedColumns(ModelOrder(pred), es_last.how)
          /\ \A i \in DOMAIN quality.columns : Len(quality.columns[i].vals) = rows

\* A successful features-mode evaluation of two models on true values of
\* two features.
C21_Witness ==
    /\ es_last.op = "estimate"
    /\ es_last.status = "ok"
    /\ es_last.how = "features"
    /\ Val(true).shape = <<2, 1, 2>>
    /\ Len(pred) = 2
    /\ quality.index.n = 3

\* A successful time_steps-mode evaluation of two models on two batches.
C21_WitnessTimeSteps ==
    /\ es_last.op = "estimate"
    /\ es_last.status = "ok"
    /\ es_last.how = "time_steps"
    /\ Val(true).shape[1] = 2
    /\ Len(pred) = 2

(***************************************************************************)
(* Further properties of TSGenerator.change_horizon                        *)
(***************************************************************************)

\* C22: a change_horizon call that fails, made on a generator constructed
\* with a valid look-back length and horizon, leaves the horizon attribute,
\* the input windows and the target windows as they were.
C22_Atomic ==
    [][(/\ Constructed /\ ValidLH(Len(last.x), last.L, last.H)
        /\ last'.op = "change_horizon" /\ last'.status # "ok")
       => (horizon' = horizon /\ data' = data /\ targets' = targets)]_vars

\* C25: on a generator constructed with a valid look-back length L and
\* horizon from a sequence of length T, change_horizon(h) succeeds for every
\* h in 1 .. T - L.
C25_Succeeds ==
    [][(/\ Constructed /\ ValidLH(Len(last.x), last.L, last.H)
        /\ last'.op = "change_horizon"
        /\ last'.H \in 1..(Len(last.x) - last.L))
       => last'.status = "ok"]_vars

\* C28: every successful change_horizon(h), h >= 1, on a generator of
\* look-back length L >= 1 rebuilds a sequence of as many rows T as the one
\* before and leaves T - L - h + 1 input windows and as many target windows.
C28_LengthKept ==
    /\ [][gen = "ready" => Len(seq') = Len(seq)]_vars
    /\ [][(/\ gen = "ready" /\ look_back_length >= 1
           /\ last'.op = "change_horizon" /\ last'.status = "ok" /\ last'.H >= 1)
          => /\ Len(last'.x) = Len(seq)
             /\ Len(data') = Len(seq) - look_back_length - last'.H + 1
             /\ Len(targets') = Len(data')]_vars

\* A successful change_horizon that changed the number of windows of a
\* generator over a sequence of three rows or more.
C28_Witness ==
    /\ last.op = "change_horizon" /\ last.status = "ok"
    /\ look_back_length >= 1 /\ horizon >= 2
    /\ Len(seq) >= 3
    /\ Len(data) >= 1
    /\ Len(data) = Len(seq) - look_back_length - horizon + 1

(***************************************************************************)
(* Further properties of ForecastEstimator.estimate                        *)
(***************************************************************************)

\* C23: estimate('time_steps') with a registered prediction whose number of
\* batches differs from that of the true values fails, and the table holds
\* no column of such a prediction.
C23_TimeStepsMismatch ==
    (es_last.op = "estimate" /\ es_last.how = "time_steps" /\ BatchMismatch)
    => /\ es_last.status # "ok"
       /\ \A i \in DOMAIN pred :
            pred[i].val.shape[1] # Val(true).shape[1] =>
                /\ pred[i].name \o "_MSE" \notin Range(ColumnNames(quality))
                /\ pred[i].name \o "_MAE" \notin Range(ColumnNames(quality))

\* C24: estimate('features') scores no prediction whose number of features
\* differs from that of the true values: with such a prediction registered
\* the call fails and the table holds no column of it.  (Checked for true
\* values of two samples or more.)
C24_FeatureMismatch ==
    (/\ es_last.op = "estimate" /\ es_last.how = "features"
     /\ ~IsNone(true)
     /\ Val(true).shape[1] * Val(true).shape[2] >= 2
     /\ \E i \in DOMAIN pred : pred[i].val.shape[3] # Val(true).shape[3])
    => /\ es_last.status # "ok"
       /\ \A i \in DOMAIN pred :
            pred[i].val.shape[3] # Val(true).shape[3] =>
                pred[i].name \o "_MSE" \notin Range(ColumnNames(quality))

\* C27: an estimate call that fails leaves the table of the evaluation
\* before it as it was.  (Checked for true values of two samples or more.)
C27_FailedKeeps ==
    [][(/\ quality.columns # <<>>
        /\ ~IsNone(true) => Val(true).shape[1] * Val(true).shape[2] >= 2
        /\ es_last'.op = "estimate" /\ es_last'.status # "ok")
       => quality' = quality]_vars

(***************************************************************************)
(* Further properties of NaiveForecaster.forecasting                       *)
(***************************************************************************)

\* C26: every iteration of the multi-step loop that does not raise makes
\* the accumulated predictions strictly longer, so that the loop ends.
\* (Checked for look-back lengths of one or more.)
C26_Progress ==
    [][(/\ model_params.look_back_length >= 1
        /\ fc_pc = "loop" /\ fc_pc' = "loop" /\ fc_calls' # fc_calls)
       => predictions'.steps > predictions.steps]_vars

\* C29: with H >= 1 and L >= 1, a forecast of length > H that returns has,
\* for each window b of the input, `length` steps that all equal the last
\* row of window b, whether H <= L or H > L.
C29_MultiStep ==
    (/\ fc_pc = "done" /\ fc_ret.err = "ok"
     /\ model_params.horizon >= 1 /\ model_params.look_back_length >= 1
     /\ forecasting_data_length > model_params.horizon)
    => /\ fc_ret.arr.steps = forecasting_data_length
       /\ Len(fc_ret.arr.wins) = Len(fc_data.wins)
       /\ \A b \in 1..Len(fc_data.wins) :
            /\ Len(fc_ret.arr.wins[b]) = forecasting_data_length
            /\ \A i \in 1..forecasting_data_length :
                 fc_ret.arr.wins[b][i] = fc_data.wins[b][fc_data.steps]

\* A forecast of three steps with H = 2 > L = 1 of two windows with
\* different last rows.
C29_Witness ==
    /\ fc_pc = "done" /\ fc_ret.err = "ok"
    /\ model_params.horizon = 2 /\ model_params.look_back_length = 1
    /\ forecasting_data_length = 3
    /\ Len(fc_data.wins) = 2
    /\ fc_data.wins[1][1] # fc_data.wins[2][1]

\* A forecast of three steps with H = 1 <= L = 2 of a window whose rows
\* differ.
C29_WitnessShort ==
    /\ fc_pc = "done" /\ fc_ret.err = "ok"
    /\ model_params.horizon = 1 /\ model_params.look_back_length = 2
    /\ forecasting_data_length = 3
    /\ Len(fc_data.wins) >= 1
    /\ fc_data.wins[1][1] # fc_data.wins[1][2]

====
